---- MODULE Spec2Model ----
(***************************************************************************)
(* The One Max evolution run of src/main.py: a population of bit-list      *)
(* individuals with cached fitness, evolved generation by generation with  *)
(* tournament selection (tools.selTournament), two-point crossover         *)
(* (tools.cxTwoPoint) and bit-flip mutation (tools.mutFlipBit).            *)
(*                                                                         *)
(* Individuals are objects: `heap` maps an object id to its alleles and    *)
(* its fitness, and pop, offspring, chosen and invalid_ind are lists of    *)
(* object ids, as Python lists hold references.  A fitness is the tuple    *)
(* `values` of deap.base.Fitness: <<>> when deleted (invalid), <<v>> when  *)
(* assigned.  Every random draw is a nondeterministic choice.              *)
(***************************************************************************)
EXTENDS Integers, Sequences, FiniteSets, TLC

VARIABLES
    pc,          \* position in main()
    heap,        \* object id -> [genes, fitness]
    pop,         \* main: pop, a list of object ids
    offspring,   \* main: offspring, a list of object ids
    chosen,      \* selTournament: chosen
    aspirants,   \* selTournament: aspirants of the latest tournament
    sel_k,       \* selTournament: the parameter k
    cxpoints,    \* cxTwoPoint: <<cxpoint1, cxpoint2>> of the running call
    invalid_ind, \* main: invalid_ind
    fits,        \* main: fits
    g,           \* main: g
    pos,         \* position of the running for loop (1-based)
    nevals,      \* calls of toolbox.evaluate in the running evaluation loop
    touched,     \* ids handed to toolbox.mate / toolbox.mutate this generation
    cfg,         \* the literals of the run: [ngenes, popsize, ngen]
    selected,    \* history: the list toolbox.select returned (line 131)
    stats        \* lines 178-186: [min, max, mean, std2] of the latest report

vars == <<pc, heap, pop, offspring, chosen, aspirants, sel_k, cxpoints, invalid_ind,
          fits, g, pos, nevals, touched, cfg, selected, stats>>

----------------------------------------------------------------------------
(* Bounds of the model.  main.py runs 300 individuals of 100 alleles for   *)
(* at most 1000 generations; the model runs every configuration of at most *)
(* MaxPop individuals of at most MaxGenes alleles with at most MaxCells    *)
(* alleles in the whole population, for at most MaxGen generations.        *)
MaxGenes == 3
MaxPop == 3
MaxCells == 6
MaxGen == 2

(* toolbox.register("select", tools.selTournament, tournsize=3)            *)
tournsize == 3

(* The literals of main.py as one record: ngenes (100, line 65), popsize   *)
(* (300, line 97) and ngen (1000, line 124).  Genomes have at least two    *)
(* alleles (cxTwoPoint draws randint(1, size - 1)) and populations at      *)
(* least one individual (line 124 takes max(fits)).                        *)
Configs ==
    {c \in [ngenes : 2..MaxGenes, popsize : 1..MaxPop, ngen : {MaxGen}] :
        c.ngenes * c.popsize <= MaxCells}

----------------------------------------------------------------------------
(* Helpers on lists                                                        *)
RECURSIVE SumSeq(_)
SumSeq(s) == IF s = <<>> THEN 0 ELSE Head(s) + SumSeq(Tail(s))

Range(s) == {s[x] : x \in DOMAIN s}

MaxOf(S) == CHOOSE x \in S : \A y \in S : y <= x

(* s[::2] and s[1::2]                                                      *)
EvenSlice(s) == [x \in 1..((Len(s) + 1) \div 2) |-> s[2 * x - 1]]
OddSlice(s) == [x \in 1..(Len(s) \div 2) |-> s[2 * x]]

(* zip(a, b): as long as the shorter list                                  *)
Zip(a, b) ==
    [x \in 1..(IF Len(a) <= Len(b) THEN Len(a) ELSE Len(b)) |-> <<a[x], b[x]>>]

----------------------------------------------------------------------------
(* Fitness                                                                 *)
Valid(fitness) == Len(fitness) # 0

(* Fitness comparison on the values tuple: the empty tuple is below any    *)
(* assigned one (tuple comparison), weights = (1.0,) keeps the order.      *)
FitLess(a, b) ==
    IF Len(a) = 0 THEN Len(b) # 0
    ELSE IF Len(b) = 0 THEN FALSE
    ELSE a[1] < b[1]

(* def evalOneMax(individual): return sum(individual),                     *)
evalOneMax(genes) == <<SumSeq(genes)>>

----------------------------------------------------------------------------
(* Operators of the toolbox                                                *)

(* ind.fitness.values = fit                                                *)
SetFitness(h, id, fit) == [h EXCEPT ![id].fitness = fit]

(* mutant of DelFitness: the del statement is missing                      *)
DelFitnessMissing(h, id) == h

(* del ind.fitness.values: the values tuple becomes empty, also when it    *)
(* already was                                                             *)
DelFitness(h, id) == [h EXCEPT ![id].fitness = <<>>]

(* mutant of MaxAspirant: min instead of max                               *)
MinAspirant(h, asp) ==
    asp[CHOOSE x \in DOMAIN asp :
          /\ \A y \in DOMAIN asp : ~FitLess(h[asp[y]].fitness, h[asp[x]].fitness)
          /\ \A y \in 1..(x - 1) : FitLess(h[asp[x]].fitness, h[asp[y]].fitness)]

(* max(aspirants, key=attrgetter("fitness")): the first aspirant no other  *)
(* aspirant beats                                                          *)
MaxAspirant(h, asp) ==
    asp[CHOOSE x \in DOMAIN asp :
          /\ \A y \in DOMAIN asp : ~FitLess(h[asp[x]].fitness, h[asp[y]].fitness)
          /\ \A y \in 1..(x - 1) : FitLess(h[asp[y]].fitness, h[asp[x]].fitness)]

(* selRandom(individuals, tournsize): tournsize independent draws of       *)
(* random.choice(individuals), so with repetition                          *)
selRandom(individuals) == [1..tournsize -> Range(individuals)]

(* cxTwoPoint: cxpoint1 = randint(1, size), cxpoint2 = randint(1, size-1); *)
(* if cxpoint2 >= cxpoint1 then cxpoint2 += 1 else the two are swapped     *)
CxDraws(size) == (1..size) \X (1..(size - 1))
CxPoints(d) == IF d[2] >= d[1] THEN <<d[1], d[2] + 1>> ELSE <<d[2], d[1]>>

(* mutant of SwapSlice: the slice starts one position early                *)
SwapSliceEarly(a, b, i, j) ==
    [x \in 1..Len(a) |-> IF i <= x /\ x <= j THEN b[x] ELSE a[x]]

(* a[i:j] = b[i:j] on 0-based half-open slices: 1-based positions i+1..j   *)
SwapSlice(a, b, i, j) ==
    [x \in 1..Len(a) |-> IF i < x /\ x <= j THEN b[x] ELSE a[x]]

(* ind1[c1:c2], ind2[c1:c2] = ind2[c1:c2], ind1[c1:c2]                     *)
cxTwoPoint(ind1, ind2, d) ==
    LET c == CxPoints(d)
    IN  <<SwapSlice(ind1, ind2, c[1], c[2]), SwapSlice(ind2, ind1, c[1], c[2])>>

(* mutFlipBit: individual[i] = type(individual[i])(not individual[i]) for  *)
(* every i whose draw random.random() < indpb succeeds                     *)
mutFlipBit(individual, flips) ==
    [x \in 1..Len(individual) |->
        IF flips[x] THEN (IF individual[x] = 0 THEN 1 ELSE 0) ELSE individual[x]]

(* mutant of CloneAll: the selected references are used as they are       *)
CloneAllShared(h, refs) == [heap |-> h, refs |-> refs]

(* mutant of CloneAll: the copies carry the alleles only                   *)
CloneAllNoFitness(h, refs) ==
    [heap |-> h \o [x \in 1..Len(refs) |-> [genes |-> h[refs[x]].genes, fitness |-> <<>>]],
     refs |-> [x \in 1..Len(refs) |-> Len(h) + x]]

(* mutant of CloneAll: one deep copy of the whole list, in which a         *)
(* repeated reference stays one object                                     *)
CloneAllMemo(h, refs) ==
    [heap |-> h \o [x \in 1..Len(refs) |-> h[refs[x]]],
     refs |-> [x \in 1..Len(refs) |->
                 Len(h) + (CHOOSE y \in 1..Len(refs) :
                              /\ refs[y] = refs[x]
                              /\ \A z \in 1..(y - 1) : refs[z] # refs[x])]]

(* list(map(toolbox.clone, offspring)): a deep copy of every selected      *)
(* individual, each a new object (a repeated reference is copied twice)    *)
CloneAll(h, refs) ==
    [heap |-> h \o [x \in 1..Len(refs) |-> h[refs[x]]],
     refs |-> [x \in 1..Len(refs) |-> Len(h) + x]]

(* mutant of Pairs: zip(offspring, offspring[1:]), overlapping pairs       *)
PairsSliding(s) == Zip(s, Tail(s))

(* zip(offspring[::2], offspring[1::2])                                    *)
Pairs(s) == Zip(EvenSlice(s), OddSlice(s))

(* mutant of InvalidOf: every offspring is re-evaluated                    *)
InvalidOfAll(h, s) == s

(* [ind for ind in offspring if not ind.fitness.valid]                     *)
InvalidOf(h, s) ==
    LET Keep(id) == ~Valid(h[id].fitness) IN SelectSeq(s, Keep)

(* [ind.fitness.values[0] for ind in pop]                                  *)
FitsOf(h, s) == [x \in 1..Len(s) |-> h[s[x]].fitness[1]]

(* min(fits)                                                               *)
MinOf(S) == CHOOSE x \in S : \A y \in S : x <= y

(* sum(x*x for x in fits)                                                  *)
SumSquares(s) == SumSeq([x \in DOMAIN s |-> s[x] * s[x]])

Abs(x) == IF x < 0 THEN 0 - x ELSE x

(* mutant of Report: the variance-corrected (sample) deviation             *)
ReportSample(s) ==
    [min  |-> MinOf(Range(s)),
     max  |-> MaxOf(Range(s)),
     mean |-> <<SumSeq(s), Len(s)>>,
     std2 |-> <<Abs(SumSquares(s) * Len(s) - SumSeq(s) * SumSeq(s)),
                Len(s) * (Len(s) - 1)>>]

(* lines 178-186.  Fractions are kept exact as <<numerator, denominator>>: *)
(* mean = sum(fits) / length, and std2 is the number whose square root     *)
(* line 181 takes, abs(sum2 / length - mean**2), over the denominator      *)
(* length * length.                                                        *)
Report(s) ==
    [min  |-> MinOf(Range(s)),
     max  |-> MaxOf(Range(s)),
     mean |-> <<SumSeq(s), Len(s)>>,
     std2 |-> <<Abs(SumSquares(s) * Len(s) - SumSeq(s) * SumSeq(s)), Len(s) * Len(s)>>]

----------------------------------------------------------------------------
(* pop = toolbox.population(n=...): every allele is randint(0, 1), no      *)
(* fitness assigned yet                                                    *)
Genomes(n) == [1..n -> {0, 1}]

Start(c, h) ==
    /\ cfg = c
    /\ pc = "init_eval"
    /\ heap = h
    /\ pop = [x \in 1..c.popsize |-> x]
    /\ offspring = <<>>
    /\ chosen = <<>>
    /\ aspirants = <<>>
    /\ sel_k = 0
    /\ cxpoints = <<>>
    /\ invalid_ind = <<>>
    /\ fits = <<>>
    /\ g = 0
    /\ pos = 1
    /\ nevals = 0
    /\ touched = {}
    /\ selected = <<>>
    /\ stats = <<>>

Init ==
    \E c \in Configs :
       \E h \in [1..c.popsize -> [genes : Genomes(c.ngenes), fitness : {<<>>}]] :
          Start(c, h)

(* lines 101-103: evaluate every individual of the new population          *)
InitAssign ==
    /\ pc = "init_eval"
    /\ pos <= Len(pop)
    /\ heap' = SetFitness(heap, pop[pos], evalOneMax(heap[pop[pos]].genes))
    /\ nevals' = nevals + 1
    /\ pos' = pos + 1
    /\ UNCHANGED <<pc, pop, offspring, chosen, aspirants, sel_k, cxpoints,
                   invalid_ind, fits, g, touched, cfg, selected, stats>>

(* lines 117-121: fits = [...], g = 0                                      *)
InitFits ==
    /\ pc = "init_eval"
    /\ pos > Len(pop)
    /\ fits' = FitsOf(heap, pop)
    /\ g' = 0
    /\ pc' = "loop"
    /\ UNCHANGED <<heap, pop, offspring, chosen, aspirants, sel_k, cxpoints,
                   invalid_ind, pos, nevals, touched, cfg, selected, stats>>

(* max(fits) < 100: the target is the fitness of the all-ones individual   *)
Target == cfg.ngenes

(* mutant of LoopCond: the cap is tested with <=                           *)
LoopCondLateCap == MaxOf(Range(fits)) < cfg.ngenes /\ g <= cfg.ngen

(* mutant of LoopCond: the target is tested with <=                        *)
LoopCondPastTarget == MaxOf(Range(fits)) <= cfg.ngenes /\ g < cfg.ngen

(* line 124: while max(fits) < 100 and g < 1000                            *)
LoopCond == MaxOf(Range(fits)) < Target /\ g < cfg.ngen

(* lines 124-131: the test succeeds, g = g + 1, and toolbox.select is      *)
(* called with len(pop); max() needs a non-empty list                      *)
LoopEnter ==
    /\ pc = "loop"
    /\ fits # <<>>
    /\ LoopCond
    /\ g' = g + 1
    /\ pc' = "select"
    /\ sel_k' = Len(pop)
    /\ chosen' = <<>>
    /\ aspirants' = <<>>
    /\ touched' = {}
    /\ UNCHANGED <<heap, pop, offspring, cxpoints, invalid_ind, fits, pos,
                   nevals, cfg, selected, stats>>

(* line 124: the test fails (max() needs a non-empty list), main() returns *)
LoopExit ==
    /\ pc = "loop"
    /\ fits # <<>>
    /\ ~LoopCond
    /\ pc' = "done"
    /\ UNCHANGED <<heap, pop, offspring, chosen, aspirants, sel_k, cxpoints,
                   invalid_ind, fits, g, pos, nevals, touched, cfg, selected,
                   stats>>

(* selTournament(pop, k): one iteration of for i in range(k)               *)
Tournament ==
    /\ pc = "select"
    /\ Len(chosen) < sel_k
    /\ \E asp \in selRandom(pop) :
          /\ aspirants' = asp
          /\ chosen' = Append(chosen, MaxAspirant(heap, asp))
    /\ UNCHANGED <<pc, heap, pop, offspring, sel_k, cxpoints, invalid_ind,
                   fits, g, pos, nevals, touched, cfg, selected, stats>>

(* line 131: offspring = toolbox.select(pop, len(pop)), selTournament      *)
(* returns chosen                                                          *)
SelectReturn ==
    /\ pc = "select"
    /\ Len(chosen) >= sel_k
    /\ offspring' = chosen
    /\ chosen' = <<>>
    /\ aspirants' = <<>>
    /\ sel_k' = 0
    /\ pc' = "clone"
    /\ UNCHANGED <<heap, pop, cxpoints, invalid_ind, fits, g, pos, nevals,
                   touched, cfg, selected, stats>>

(* line 133: offspring = list(map(toolbox.clone, offspring))               *)
Clone ==
    /\ pc = "clone"
    /\ LET c == CloneAll(heap, offspring)
       IN  /\ heap' = c.heap
           /\ offspring' = c.refs
    /\ pos' = 1
    /\ pc' = "cx"
    /\ UNCHANGED <<pop, chosen, aspirants, sel_k, cxpoints, invalid_ind, fits,
                   g, nevals, touched, cfg, selected, stats>>

(* lines 145-146: the next pair of zip(offspring[::2], offspring[1::2])    *)
(* and the draw random.random() < CXPB                                     *)
CxDraw ==
    /\ pc = "cx"
    /\ pos <= Len(Pairs(offspring))
    /\ \E crossed \in BOOLEAN :
          IF crossed
          THEN pc' = "cx_mate" /\ pos' = pos
          ELSE pc' = "cx" /\ pos' = pos + 1
    /\ UNCHANGED <<heap, pop, offspring, chosen, aspirants, sel_k, cxpoints,
                   invalid_ind, fits, g, nevals, touched, cfg, selected, stats>>

(* line 147: toolbox.mate(child1, child2), in place                        *)
Mate ==
    /\ pc = "cx_mate"
    /\ LET child1 == Pairs(offspring)[pos][1]
           child2 == Pairs(offspring)[pos][2]
           size == IF Len(heap[child1].genes) <= Len(heap[child2].genes)
                   THEN Len(heap[child1].genes) ELSE Len(heap[child2].genes)
       IN  /\ \E d \in CxDraws(size) :
                LET r == cxTwoPoint(heap[child1].genes, heap[child2].genes, d)
                IN  /\ cxpoints' = CxPoints(d)
                    /\ heap' = [[heap EXCEPT ![child1].genes = r[1]]
                                      EXCEPT ![child2].genes = r[2]]
           /\ touched' = touched \cup {child1, child2}
    /\ pc' = "cx_del1"
    /\ UNCHANGED <<pop, offspring, chosen, aspirants, sel_k, invalid_ind, fits,
                   g, pos, nevals, cfg, selected, stats>>

(* line 148: del child1.fitness.values                                     *)
CxDel1 ==
    /\ pc = "cx_del1"
    /\ heap' = DelFitness(heap, Pairs(offspring)[pos][1])
    /\ cxpoints' = <<>>
    /\ pc' = "cx_del2"
    /\ UNCHANGED <<pop, offspring, chosen, aspirants, sel_k, invalid_ind, fits,
                   g, pos, nevals, touched, cfg, selected, stats>>

(* mutant of CxDel2: child1 is invalidated a second time, child2 never     *)
CxDel2Child1 ==
    /\ pc = "cx_del2"
    /\ heap' = [heap EXCEPT
                 ![Zip(EvenSlice(offspring), OddSlice(offspring))[pos][1]].fitness = <<>>]
    /\ pc' = "cx"
    /\ pos' = pos + 1
    /\ UNCHANGED <<pop, offspring, chosen, aspirants, sel_k, cxpoints,
                   invalid_ind, fits, g, nevals, touched, cfg, selected, stats>>

(* line 149: del child2.fitness.values                                     *)
CxDel2 ==
    /\ pc = "cx_del2"
    /\ heap' = DelFitness(heap, Pairs(offspring)[pos][2])
    /\ pc' = "cx"
    /\ pos' = pos + 1
    /\ UNCHANGED <<pop, offspring, chosen, aspirants, sel_k, cxpoints,
                   invalid_ind, fits, g, nevals, touched, cfg, selected, stats>>

(* line 145: the zip is exhausted; line 151 starts the mutation pass       *)
CxDone ==
    /\ pc = "cx"
    /\ pos > Len(Pairs(offspring))
    /\ pc' = "mut"
    /\ pos' = 1
    /\ UNCHANGED <<heap, pop, offspring, chosen, aspirants, sel_k, cxpoints,
                   invalid_ind, fits, g, nevals, touched, cfg, selected, stats>>

(* mutant of MutDraw: an offspring the crossover pass changed is passed    *)
(* over                                                                    *)
MutDrawUncrossed ==
    /\ pc = "mut"
    /\ pos <= Len(offspring)
    /\ \E mutated \in BOOLEAN :
          IF mutated /\ Valid(heap[offspring[pos]].fitness)
          THEN pc' = "mut_apply" /\ pos' = pos
          ELSE pc' = "mut" /\ pos' = pos + 1
    /\ UNCHANGED <<heap, pop, offspring, chosen, aspirants, sel_k, cxpoints,
                   invalid_ind, fits, g, nevals, touched, cfg, selected, stats>>

(* lines 151-152: the next mutant and the draw random.random() < MUTPB     *)
MutDraw ==
    /\ pc = "mut"
    /\ pos <= Len(offspring)
    /\ \E mutated \in BOOLEAN :
          IF mutated
          THEN pc' = "mut_apply" /\ pos' = pos
          ELSE pc' = "mut" /\ pos' = pos + 1
    /\ UNCHANGED <<heap, pop, offspring, chosen, aspirants, sel_k, cxpoints,
                   invalid_ind, fits, g, nevals, touched, cfg, selected, stats>>

(* line 153: toolbox.mutate(mutant), in place                              *)
Mutate ==
    /\ pc = "mut_apply"
    /\ LET mutant == offspring[pos]
       IN  /\ \E flips \in [1..Len(heap[mutant].genes) -> BOOLEAN] :
                heap' = [heap EXCEPT
                           ![mutant].genes = mutFlipBit(heap[mutant].genes, flips)]
           /\ touched' = touched \cup {mutant}
    /\ pc' = "mut_del"
    /\ UNCHANGED <<pop, offspring, chosen, aspirants, sel_k, cxpoints,
                   invalid_ind, fits, g, pos, nevals, cfg, selected, stats>>

(* line 154: del mutant.fitness.values                                     *)
MutDel ==
    /\ pc = "mut_del"
    /\ heap' = DelFitness(heap, offspring[pos])
    /\ pc' = "mut"
    /\ pos' = pos + 1
    /\ UNCHANGED <<pop, offspring, chosen, aspirants, sel_k, cxpoints,
                   invalid_ind, fits, g, nevals, touched, cfg, selected, stats>>

(* mutant of CollectInvalid: the mutation pass is left after as many       *)
(* positions as there are pairs                                            *)
CollectInvalidEarly ==
    /\ pc = "mut"
    /\ pos > Len(Pairs(offspring))
    /\ invalid_ind' = InvalidOf(heap, offspring)
    /\ nevals' = 0
    /\ pos' = 1
    /\ pc' = "reeval"
    /\ UNCHANGED <<heap, pop, offspring, chosen, aspirants, sel_k, cxpoints,
                   fits, g, touched, cfg, selected, stats>>

(* line 151: the mutation pass is over; line 164 collects the invalid      *)
(* offspring                                                               *)
CollectInvalid ==
    /\ pc = "mut"
    /\ pos > Len(offspring)
    /\ invalid_ind' = InvalidOf(heap, offspring)
    /\ nevals' = 0
    /\ pos' = 1
    /\ pc' = "reeval"
    /\ UNCHANGED <<heap, pop, offspring, chosen, aspirants, sel_k, cxpoints,
                   fits, g, touched, cfg, selected, stats>>

(* lines 165-167: the lazy map evaluates the next invalid individual and   *)
(* the loop assigns its fitness                                            *)
EvalAssign ==
    /\ pc = "reeval"
    /\ pos <= Len(invalid_ind)
    /\ heap' = SetFitness(heap, invalid_ind[pos],
                          evalOneMax(heap[invalid_ind[pos]].genes))
    /\ nevals' = nevals + 1
    /\ pos' = pos + 1
    /\ UNCHANGED <<pc, pop, offspring, chosen, aspirants, sel_k, cxpoints,
                   invalid_ind, fits, g, touched, cfg, selected, stats>>

(* line 167: the loop over invalid_ind is over                             *)
EvalDone ==
    /\ pc = "reeval"
    /\ pos > Len(invalid_ind)
    /\ pc' = "replace"
    /\ UNCHANGED <<heap, pop, offspring, chosen, aspirants, sel_k, cxpoints,
                   invalid_ind, fits, g, pos, nevals, touched, cfg, selected,
                   stats>>

(* mutant of Replace: pop[1:] = offspring[1:], the first parent survives   *)
ReplaceTail ==
    /\ pc = "replace"
    /\ heap' = [x \in 1..Len(offspring) |->
                  IF x = 1 THEN heap[pop[1]] ELSE heap[offspring[x]]]
    /\ pop' = [x \in 1..Len(offspring) |-> x]
    /\ offspring' = [x \in 1..Len(offspring) |-> x]
    /\ invalid_ind' = <<>>
    /\ touched' = {}
    /\ selected' = <<>>
    /\ pc' = "stats"
    /\ UNCHANGED <<chosen, aspirants, sel_k, cxpoints, fits, g, pos, nevals,
                   cfg, stats>>

(* line 170: pop[:] = offspring.  The list pop now holds the offspring     *)
(* objects; the individuals nothing refers to any more are dropped and the *)
(* survivors renumbered from 1 (object identity is kept up to renaming).   *)
Replace ==
    /\ pc = "replace"
    /\ heap' = [x \in 1..Len(offspring) |-> heap[offspring[x]]]
    /\ pop' = [x \in 1..Len(offspring) |-> x]
    /\ offspring' = [x \in 1..Len(offspring) |-> x]
    /\ invalid_ind' = <<>>
    /\ touched' = {}
    /\ selected' = <<>>
    /\ pc' = "stats"
    /\ UNCHANGED <<chosen, aspirants, sel_k, cxpoints, fits, g, pos, nevals,
                   cfg, stats>>

(* mutant of Stats: the report is made from the list of line 117, which is *)
(* not computed again                                                      *)
StatsKeepFits ==
    /\ pc = "stats"
    /\ fits' = fits
    /\ stats' = Report(fits)
    /\ pc' = "loop"
    /\ UNCHANGED <<heap, pop, offspring, chosen, aspirants, sel_k, cxpoints,
                   invalid_ind, g, pos, nevals, touched, cfg, selected>>

(* lines 176-186: fits = [ind.fitness.values[0] for ind in pop] and the    *)
(* report of its min, max, mean and std                                    *)
Stats ==
    /\ pc = "stats"
    /\ fits' = FitsOf(heap, pop)
    /\ stats' = Report(FitsOf(heap, pop))
    /\ pc' = "loop"
    /\ UNCHANGED <<heap, pop, offspring, chosen, aspirants, sel_k, cxpoints,
                   invalid_ind, g, pos, nevals, touched, cfg, selected>>

Next ==
    \/ InitAssign
    \/ InitFits
    \/ LoopEnter
    \/ LoopExit
    \/ Tournament
    \/ SelectReturn
    \/ Clone
    \/ CxDraw
    \/ Mate
    \/ CxDel1
    \/ CxDel2
    \/ CxDone
    \/ MutDraw
    \/ Mutate
    \/ MutDel
    \/ CollectInvalid
    \/ EvalAssign
    \/ EvalDone
    \/ Replace
    \/ Stats

Spec == Init /\ [][Next]_vars

----------------------------------------------------------------------------
(* Views used by the properties                                            *)

(* the individuals main() can reach through pop or offspring               *)
Live == Range(pop) \cup Range(offspring)

(* a valid fitness that is not the evaluation of the current alleles       *)
Stale(id) ==
    /\ Valid(heap[id].fitness)
    /\ heap[id].fitness # <<SumSeq(heap[id].genes)>>

(* an operand of a mate / mutate call that returned while the del          *)
(* statement that follows it has not run yet                               *)
Pending(id) ==
    \/ pc = "cx_del1" /\ id \in {offspring[2 * pos - 1], offspring[2 * pos]}
    \/ pc = "cx_del2" /\ id = offspring[2 * pos]
    \/ pc = "mut_del" /\ id = offspring[pos]

(* the re-evaluation loop has already assigned this individual             *)
Reassigned(id) ==
    /\ pc \in {"reeval", "replace"}
    /\ \E j \in 1..(pos - 1) : j <= Len(invalid_ind) /\ invalid_ind[j] = id

(* offspring positions whose fitness is invalid                            *)
InvalidPositions == {x \in DOMAIN offspring : ~Valid(heap[offspring[x]].fitness)}

----------------------------------------------------------------------------
C2_InvalidUntilReevaluated ==
    \A id \in touched : Valid(heap[id].fitness) => (Pending(id) \/ Reassigned(id))

(* the passes are over, an operand whose alleles are those of every parent *)
(* (so unchanged by the operator) is invalid and not yet re-evaluated      *)
C2_Witness ==
    /\ pc = "reeval"
    /\ pos = 1
    /\ \E id \in touched :
          /\ ~Valid(heap[id].fitness)
          /\ \A p \in Range(pop) : heap[p].genes = heap[id].genes

(* C3: the re-evaluation step calls the evaluator once per offspring that  *)
(* is invalid when the step starts and never on a valid one: the number of *)
(* invalid offspring always equals len(invalid_ind) minus the calls made,  *)
(* the step ends after len(invalid_ind) calls with no invalid offspring,   *)
(* and no step of the loop changes an offspring whose fitness is valid.    *)
C3_Count ==
    pc \in {"reeval", "replace"} =>
       /\ Cardinality(InvalidPositions) = Len(invalid_ind) - nevals
       /\ pc = "replace" => nevals = Len(invalid_ind)

C3_Frame ==
    pc = "reeval" =>
       \A id \in Range(offspring) : Valid(heap[id].fitness) => heap'[id] = heap[id]

(* C3: evaluation minimality, the count in every state and the frame of    *)
(* every step of the re-evaluation loop                                    *)
C3_EvaluationMinimal == []C3_Count /\ [][C3_Frame]_vars

(* the step is over: some offspring were evaluated, some were not          *)
C3_Witness ==
    /\ pc = "replace"
    /\ nevals > 0
    /\ nevals < Len(offspring)

(* --------------------------------------------------------------------- *)
(* The run under its scheduling: main() is one sequential thread with no   *)
(* suspension point, so a statement that can run does run.                 *)
FairSpec == Spec /\ WF_vars(Next)

(* C4: every run ends.  g never exceeds the generation cap, changes only   *)
(* at the loop test that starts an iteration and then by exactly one, the  *)
(* test fails when g has reached the cap, and main() returns eventually    *)
(* whatever the selection, crossover and mutation draws are.               *)
C4_Bounded == g <= cfg.ngen

C4_Step ==
    /\ g' # g => (pc = "loop" /\ pc' = "select" /\ g' = g + 1)
    /\ (pc = "loop" /\ pc' = "select") => g' = g + 1
    /\ (pc = "loop" /\ g >= cfg.ngen) => pc' \in {"done", "loop"}

(* C4: the counter stays within the cap, moves by one at the loop test     *)
(* only, and the run reaches the end of main()                             *)
C4_Terminates == []C4_Bounded /\ [][C4_Step]_vars /\ <>(pc = "done")

(* the run ended on the cap with no individual at the target               *)
C4_Witness ==
    /\ pc = "done"
    /\ g = cfg.ngen
    /\ \A x \in DOMAIN pop : heap[pop[x]].fitness[1] < cfg.ngenes

(* the best fitness of the current population, read from the individuals   *)
BestFitness == MaxOf({heap[pop[x]].fitness[1] : x \in DOMAIN pop})

(* C5: the loop test leaves to the end of main() exactly when the best     *)
(* fitness of the current population is at least the target or g has       *)
(* reached the cap, and starts another generation otherwise; in the final  *)
(* state one of the two holds.                                             *)
C5_Done == pc = "done" => (BestFitness >= cfg.ngenes \/ g >= cfg.ngen)

C5_Step ==
    (pc = "loop" /\ pc' # "loop") =>
        IF BestFitness >= cfg.ngenes \/ g >= cfg.ngen
        THEN pc' = "done" /\ g' = g
        ELSE pc' = "select" /\ g' = g + 1

(* C5: the final state and every loop test agree with the stop condition   *)
C5_StopsExactlyWhen == []C5_Done /\ [][C5_Step]_vars

(* the initial population holds an all-ones individual: no generation runs *)
C5_Witness ==
    /\ pc = "done"
    /\ g = 0
    /\ BestFitness >= cfg.ngenes

(* the individuals of the population, in order                             *)
PopView == [x \in DOMAIN pop |-> heap[pop[x]]]
OffspringView == [x \in DOMAIN offspring |-> heap[offspring[x]]]

(* C6: from selection to the end of re-evaluation no step changes the      *)
(* alleles or the fitness of an individual of the population: crossover,   *)
(* mutation, invalidation and re-evaluation act on the clones only.        *)
C6_Step ==
    pc \in {"select", "clone", "cx", "cx_mate", "cx_del1", "cx_del2", "mut",
            "mut_apply", "mut_del", "reeval"} => PopView' = PopView

(* C6: every step between selection and replacement leaves the parents     *)
(* as they were                                                            *)
C6_ParentsUnchanged == [][C6_Step]_vars

(* before the replace step, an offspring carries alleles no parent has     *)
C6_Witness ==
    /\ pc = "replace"
    /\ \E x \in DOMAIN offspring :
          \A y \in DOMAIN pop : heap[offspring[x]].genes # heap[pop[y]].genes

(* C7: the population always has popsize individuals; from cloning to the  *)
(* replace step the offspring list has as many, all distinct objects and   *)
(* none of them a member of the population; the replace step makes the     *)
(* population the offspring list, in order.                                *)
C7_Size ==
    /\ Len(pop) = cfg.popsize
    /\ pc \in {"clone", "cx", "cx_mate", "cx_del1", "cx_del2", "mut", "mut_apply",
               "mut_del", "reeval", "replace"} => Len(offspring) = cfg.popsize
    /\ pc \in {"cx", "cx_mate", "cx_del1", "cx_del2", "mut", "mut_apply", "mut_del",
               "reeval", "replace"} =>
          /\ Range(offspring) \cap Range(pop) = {}
          /\ Cardinality(Range(offspring)) = Len(offspring)

C7_Step == pc = "replace" => PopView' = OffspringView

(* C7: fixed population size and whole-population replacement in order     *)
C7_WholeReplacement == []C7_Size /\ [][C7_Step]_vars

(* the population has been replaced a second time                          *)
C7_Witness ==
    /\ pc = "stats"
    /\ g > 1
    /\ Len(pop) > 1

(* --------------------------------------------------------------------- *)
(* toolbox.select on its own: tools.selTournament(pop, k) called on an     *)
(* evaluated population with any k in 0..MaxSelect.                        *)
MaxSelect == 4

Evaluated(h) ==
    [x \in DOMAIN h |-> [genes |-> h[x].genes, fitness |-> evalOneMax(h[x].genes)]]

InitSelect ==
    \E c \in Configs :
       \E h \in [1..c.popsize -> [genes : Genomes(c.ngenes), fitness : {<<>>}]] :
          \E n \in 0..MaxSelect :
             /\ cfg = c
             /\ pc = "select"
             /\ heap = Evaluated(h)
             /\ pop = [x \in 1..c.popsize |-> x]
             /\ offspring = <<>>
             /\ chosen = <<>>
             /\ aspirants = <<>>
             /\ sel_k = n
             /\ cxpoints = <<>>
             /\ invalid_ind = <<>>
             /\ fits = FitsOf(Evaluated(h), [x \in 1..c.popsize |-> x])
             /\ g = 1
             /\ pos = c.popsize + 1
             /\ nevals = c.popsize
             /\ touched = {}
             /\ selected = <<>>
             /\ stats = <<>>

NextSelect ==
    \/ Tournament
    \/ SelectReturn

SpecSelect == InitSelect /\ [][NextSelect]_vars

(* C8: the selector returns exactly k references, each to a member of the  *)
(* given population, for every k >= 0; every tournament samples tournsize  *)
(* members (with repetition) and appends one of them that no sampled       *)
(* member beats.                                                           *)
C8_Tournament ==
    (pc = "select" /\ chosen # <<>>) =>
       /\ Len(aspirants) = 3
       /\ Range(aspirants) \subseteq Range(pop)
       /\ chosen[Len(chosen)] \in Range(aspirants)
       /\ \A a \in Range(aspirants) :
             heap[a].fitness[1] <= heap[chosen[Len(chosen)]].fitness[1]
       /\ Len(chosen) <= sel_k

C8_Return ==
    (pc = "select" /\ pc' = "clone") =>
       /\ Len(offspring') = sel_k
       /\ Range(offspring') \subseteq Range(pop)

(* C8: every tournament keeps a best member of its sample and the selector *)
(* returns k references into the population                                *)
C8_SelectorOutput == []C8_Tournament /\ [][C8_Return]_vars

(* more references than the population has members: some member is         *)
(* returned at two positions                                               *)
C8_Witness ==
    /\ pc = "clone"
    /\ Len(offspring) > Len(pop)
    /\ \E x, y \in DOMAIN offspring : x # y /\ offspring[x] = offspring[y]

(* --------------------------------------------------------------------- *)
(* The run of Spec, and one more run with five individuals of two alleles, *)
(* one generation.                                                         *)
FivePop ==
    [x \in 1..5 |-> [genes |-> IF x % 2 = 0 THEN <<0, 1>> ELSE <<1, 0>>,
                     fitness |-> <<>>]]

InitPairs ==
    \/ Init
    \/ Start([ngenes |-> 2, popsize |-> 5, ngen |-> 1], FivePop)

SpecPairs == InitPairs /\ [][Next]_vars

(* C9: the crossover pass handles the pairs of positions (0,1), (2,3), ... *)
(* one after the other: a step of the pass changes no offspring but the    *)
(* two of the running pair, and with an odd number of offspring the last   *)
(* one is in no pair: at the end of the pass it still has the alleles and  *)
(* the valid fitness it was cloned with.                                   *)
CxPass == {"cx", "cx_mate", "cx_del1", "cx_del2"}

C9_Step ==
    pc \in CxPass =>
       \A x \in DOMAIN offspring :
          heap'[offspring[x]] # heap[offspring[x]] =>
             /\ pc # "cx"
             /\ 2 * pos <= Len(offspring)
             /\ x \in {2 * pos - 1, 2 * pos}

C9_Unpaired ==
    ((pc \in CxPass \/ (pc = "mut" /\ pos = 1)) /\ Len(offspring) % 2 = 1) =>
       LET last == offspring[Len(offspring)]
       IN  /\ last \notin touched
           /\ heap[last].fitness = <<SumSeq(heap[last].genes)>>
           /\ \E p \in Range(pop) : heap[p] = heap[last]

(* C9: disjoint adjacent pairs, the trailing offspring of an odd list      *)
(* untouched by the crossover pass                                         *)
C9_AdjacentPairs == []C9_Unpaired /\ [][C9_Step]_vars

(* five offspring, both pairs crossed: positions 0..3 are invalid and the  *)
(* one at position 4 is not                                                *)
C9_Witness ==
    /\ pc = "mut"
    /\ pos = 1
    /\ Len(offspring) = 5
    /\ \A x \in 1..4 : ~Valid(heap[offspring[x]].fitness)
    /\ Valid(heap[offspring[5]].fitness)

(* --------------------------------------------------------------------- *)
(* toolbox.mate on its own: tools.cxTwoPoint called on any two evaluated   *)
(* individuals of the same length, 2 to MaxCxLen alleles.                  *)
MaxCxLen == 6
MaxStatPop == 4
MaxStatGenes == 4
MaxEdge == 2

InitCx ==
    \E n \in 2..MaxCxLen :
       \E h \in [1..2 -> [genes : Genomes(n), fitness : {<<>>}]] :
          /\ cfg = [ngenes |-> n, popsize |-> 2, ngen |-> 1]
          /\ pc = "cx_mate"
          /\ heap = Evaluated(h)
          /\ pop = <<>>
          /\ offspring = <<1, 2>>
          /\ chosen = <<>>
          /\ aspirants = <<>>
          /\ sel_k = 0
          /\ cxpoints = <<>>
          /\ invalid_ind = <<>>
          /\ fits = <<>>
          /\ g = 1
          /\ pos = 1
          /\ nevals = 0
          /\ touched = {}
          /\ selected = <<>>
          /\ stats = <<>>

NextCx ==
    \/ Mate
    \/ CxDel1
    \/ CxDel2

SpecCx == InitCx /\ [][NextCx]_vars

(* C10: a call of two-point crossover on genomes of length N picks         *)
(* i, j with 0 <= i < j <= N, gives each genome the other's alleles at the *)
(* 0-based positions i..j-1 and leaves every other position of both as it  *)
(* was; with (2,5) on 000000 and 111111 it yields 001110 and 110001.       *)
C10_Step ==
    (pc = "cx_mate" /\ pc' = "cx_del1") =>
       LET a == heap[offspring[2 * pos - 1]].genes
           b == heap[offspring[2 * pos]].genes
           a2 == heap'[offspring[2 * pos - 1]].genes
           b2 == heap'[offspring[2 * pos]].genes
           i == cxpoints'[1]
           j == cxpoints'[2]
       IN  /\ 0 <= i /\ i < j /\ j <= Len(a)
           /\ Len(a2) = Len(a) /\ Len(b2) = Len(b)
           /\ \A x \in 0..(Len(a) - 1) :
                 IF i <= x /\ x < j
                 THEN a2[x + 1] = b[x + 1] /\ b2[x + 1] = a[x + 1]
                 ELSE a2[x + 1] = a[x + 1] /\ b2[x + 1] = b[x + 1]
           /\ (a = <<0, 0, 0, 0, 0, 0>> /\ b = <<1, 1, 1, 1, 1, 1>> /\ i = 2 /\ j = 5)
                 => (a2 = <<0, 0, 1, 1, 1, 0>> /\ b2 = <<1, 1, 0, 0, 0, 1>>)

(* C10: every call of two-point crossover exchanges exactly [i,j)          *)
C10_TwoPointCrossover == [][C10_Step]_vars

(* the call with (2,5) on 000000 and 111111 has returned                   *)
C10_Witness ==
    /\ pc = "cx_del1"
    /\ cxpoints = <<2, 5>>
    /\ heap[offspring[1]].genes = <<0, 0, 1, 1, 1, 0>>
    /\ heap[offspring[2]].genes = <<1, 1, 0, 0, 0, 1>>

----------------------------------------------------------------------------
(* The report of lines 176-186, started at line 170 of a generation in     *)
(* which every offspring was mutated away from an all-zero population and  *)
(* re-evaluated.  The report reads the fitness values only, so a genome    *)
(* with k ones is represented by the one with its ones first.              *)

OnesFirst(n, k) == [x \in 1..n |-> IF x <= k THEN 1 ELSE 0]

InitStats ==
    \E m \in 1..MaxStatPop :
       \E f \in [1..m -> 0..MaxStatGenes] :
          /\ cfg = [ngenes |-> MaxStatGenes, popsize |-> m, ngen |-> MaxGen]
          /\ pc = "replace"
          /\ heap = [x \in 1..(2 * m) |->
                       IF x <= m
                       THEN [genes   |-> OnesFirst(MaxStatGenes, 0),
                             fitness |-> evalOneMax(OnesFirst(MaxStatGenes, 0))]
                       ELSE [genes   |-> OnesFirst(MaxStatGenes, f[x - m]),
                             fitness |-> evalOneMax(OnesFirst(MaxStatGenes, f[x - m]))]]
          /\ pop = [x \in 1..m |-> x]
          /\ offspring = [x \in 1..m |-> m + x]
          /\ chosen = <<>>
          /\ aspirants = <<>>
          /\ sel_k = 0
          /\ cxpoints = <<>>
          /\ invalid_ind = [x \in 1..m |-> m + x]
          /\ fits = [x \in 1..m |-> 0]
          /\ g = 1
          /\ pos = m + 1
          /\ nevals = m
          /\ touched = (m + 1)..(2 * m)
          /\ selected = <<>>
          /\ stats = <<>>

NextStats ==
    \/ Replace
    \/ Stats

SpecStats == InitStats /\ [][NextStats]_vars

(* the fitness values of the population, read from the individuals         *)
PopFitness == [x \in 1..Len(pop) |-> heap[pop[x]].fitness[1]]

(* sum over i of (n * x_i - sum(x))^2, which is n^3 times the population   *)
(* variance (1/n) * sum over i of (x_i - mean)^2                           *)
Spread(s) ==
    SumSeq([x \in DOMAIN s |-> (Len(s) * s[x] - SumSeq(s)) * (Len(s) * s[x] - SumSeq(s))])

(* C12: the report made after the replacement is over the fitness values   *)
(* of the new population: min and max are its least and greatest value,    *)
(* mean is its sum divided by its length, and the number under the square  *)
(* root of std is its population (uncorrected) variance; for the values    *)
(* 1, 2, 3, 4 these are 1, 4, 2.5 and 1.25.                                *)
C12_Statistics ==
    (pc = "loop" /\ stats # <<>>) =>
        LET x == PopFitness
            n == Len(x)
        IN  /\ \E i \in 1..n : stats.min = x[i]
            /\ \A i \in 1..n : stats.min <= x[i]
            /\ \E i \in 1..n : stats.max = x[i]
            /\ \A i \in 1..n : stats.max >= x[i]
            /\ stats.mean[2] # 0
            /\ stats.mean[1] * n = SumSeq(x) * stats.mean[2]
            /\ stats.std2[2] # 0
            /\ stats.std2[1] * n * n * n = Spread(x) * stats.std2[2]
            /\ x = <<1, 2, 3, 4>> =>
                  /\ stats.min = 1
                  /\ stats.max = 4
                  /\ stats.mean[1] * 2 = 5 * stats.mean[2]
                  /\ stats.std2[1] * 4 = 5 * stats.std2[2]

C12_Witness ==
    /\ pc = "loop"
    /\ PopFitness = <<1, 2, 3, 4>>
    /\ stats = [min |-> 1, max |-> 4, mean |-> <<10, 4>>, std2 |-> <<20, 16>>]

----------------------------------------------------------------------------
(* The run with the literals of lines 65 and 97 taken down to 1 and 0.     *)
(* Two calls of the run have no result for some arguments and raise: the   *)
(* exception is not caught, so main() stops there (pc = "error").          *)

EdgeConfigs == [ngenes : 0..MaxEdge, popsize : 0..MaxEdge, ngen : {1}]

InitEdge ==
    \E c \in EdgeConfigs :
       \E h \in [1..c.popsize -> [genes : Genomes(c.ngenes), fitness : {<<>>}]] :
          Start(c, h)

(* line 124: max(fits) of an empty list raises ValueError                  *)
LoopRaise ==
    /\ pc = "loop"
    /\ fits = <<>>
    /\ pc' = "error"
    /\ UNCHANGED <<heap, pop, offspring, chosen, aspirants, sel_k, cxpoints,
                   invalid_ind, fits, g, pos, nevals, touched, cfg, selected,
                   stats>>

(* line 147: tools.cxTwoPoint draws randint(1, size - 1), which raises     *)
(* ValueError when size < 2                                                *)
MateRaise ==
    /\ pc = "cx_mate"
    /\ LET child1 == Pairs(offspring)[pos][1]
           child2 == Pairs(offspring)[pos][2]
           size == IF Len(heap[child1].genes) <= Len(heap[child2].genes)
                   THEN Len(heap[child1].genes) ELSE Len(heap[child2].genes)
       IN  CxDraws(size) = {}
    /\ pc' = "error"
    /\ UNCHANGED <<heap, pop, offspring, chosen, aspirants, sel_k, cxpoints,
                   invalid_ind, fits, g, pos, nevals, touched, cfg, selected,
                   stats>>

NextEdge ==
    \/ Next
    \/ LoopRaise
    \/ MateRaise

SpecEdge == InitEdge /\ [][NextEdge]_vars

(* C13: a run with an empty population or with zero-length genomes never   *)
(* stops on an error: no call of the run raises.                           *)
C13_EdgeRunsEndNormally ==
    (cfg.popsize = 0 \/ cfg.ngenes = 0) => pc # "error"

----------------------------------------------------------------------------
(* C14: a configuration with a non-positive genome length or population    *)
(* size, or with a tournament larger than the population, is rejected      *)
(* before the loop: no generation is begun from it.                        *)
C14_InvalidConfigRejected ==
    (cfg.ngenes <= 0 \/ cfg.popsize <= 0 \/ tournsize > cfg.popsize) =>
        (g = 0 /\ pc \in {"init_eval", "loop", "done", "error"})

----------------------------------------------------------------------------
(* C15: the phases follow one another in the order of main(): the initial  *)
(* evaluation covers the whole population before the first loop test;      *)
(* selection is complete before cloning; cloning is followed by the        *)
(* crossover pass, which visits every pair before the mutation pass        *)
(* starts; the mutation pass visits every offspring before re-evaluation   *)
(* starts; replacement follows a complete re-evaluation and is followed by *)
(* the report; the loop test leads to selection or to the end, and nothing *)
(* follows the end.                                                        *)
C15_Step ==
    /\ pc = "init_eval" =>
          /\ pc' \in {"init_eval", "loop"}
          /\ pc' = "loop" =>
                /\ g' = 0
                /\ \A x \in DOMAIN pop : Valid(heap[pop[x]].fitness)
    /\ pc = "loop" => pc' \in {"select", "done"}
    /\ pc = "select" =>
          /\ pc' \in {"select", "clone"}
          /\ pc' = "clone" => Len(offspring') = Len(pop)
    /\ pc = "clone" => pc' = "cx" /\ pos' = 1
    /\ pc = "cx" =>
          /\ pc' \in {"cx", "cx_mate", "mut"}
          /\ pc' = "mut" => (pos > Len(offspring) \div 2 /\ pos' = 1)
    /\ pc = "cx_mate" => pc' = "cx_del1"
    /\ pc = "cx_del1" => pc' = "cx_del2"
    /\ pc = "cx_del2" => pc' = "cx"
    /\ pc = "mut" =>
          /\ pc' \in {"mut", "mut_apply", "reeval"}
          /\ pc' = "reeval" => pos > Len(offspring)
    /\ pc = "mut_apply" => pc' = "mut_del"
    /\ pc = "mut_del" => pc' = "mut"
    /\ pc = "reeval" =>
          /\ pc' \in {"reeval", "replace"}
          /\ pc' = "replace" =>
                \A x \in DOMAIN offspring : Valid(heap[offspring[x]].fitness)
    /\ pc = "replace" => pc' = "stats"
    /\ pc = "stats" => pc' = "loop"
    /\ pc = "done" => pc' = "done"

C15_PhaseOrder == [][C15_Step]_vars

C15_Witness ==
    /\ pc = "replace"
    /\ g = 2
    /\ Len(offspring) = 3
    /\ touched = Range(offspring)

----------------------------------------------------------------------------
(* One generation of the run with the list that toolbox.select returned    *)
(* kept beside the offspring, so that every offspring can be compared with *)
(* the member of the population it was cloned from.  main() drops that     *)
(* list at line 133; keeping it changes no other variable.                 *)

LineageConfigs ==
    {c \in [ngenes : 2..MaxGenes, popsize : 1..MaxPop, ngen : {1}] :
        c.ngenes * c.popsize <= MaxCells}

InitLineage ==
    \E c \in LineageConfigs :
       \E h \in [1..c.popsize -> [genes : Genomes(c.ngenes), fitness : {<<>>}]] :
          Start(c, h)

(* line 131: offspring = toolbox.select(pop, len(pop))                     *)
SelectReturnKept ==
    /\ pc = "select"
    /\ Len(chosen) >= sel_k
    /\ offspring' = chosen
    /\ selected' = chosen
    /\ chosen' = <<>>
    /\ aspirants' = <<>>
    /\ sel_k' = 0
    /\ pc' = "clone"
    /\ UNCHANGED <<heap, pop, cxpoints, invalid_ind, fits, g, pos, nevals,
                   touched, cfg, stats>>

NextLineage ==
    \/ InitAssign
    \/ InitFits
    \/ LoopEnter
    \/ LoopExit
    \/ Tournament
    \/ SelectReturnKept
    \/ Clone
    \/ CxDraw
    \/ Mate
    \/ CxDel1
    \/ CxDel2
    \/ CxDone
    \/ MutDraw
    \/ Mutate
    \/ MutDel
    \/ CollectInvalid
    \/ EvalAssign
    \/ EvalDone
    \/ Replace
    \/ Stats

SpecLineage == InitLineage /\ [][NextLineage]_vars

(* the positions of the offspring list other than the operands of the      *)
(* statement about to run: the pair of the crossover pass, the mutant of   *)
(* the mutation pass                                                       *)
Bystanders ==
    IF pc \in {"cx_mate", "cx_del1", "cx_del2"}
    THEN DOMAIN offspring \ {2 * pos - 1, 2 * pos}
    ELSE IF pc \in {"mut_apply", "mut_del"}
         THEN DOMAIN offspring \ {pos}
         ELSE {}

C16_Distinct ==
    pc \in {"cx", "cx_mate", "cx_del1", "cx_del2", "mut", "mut_apply", "mut_del",
            "reeval", "replace"} =>
        \A x, y \in DOMAIN offspring :
           (x # y /\ selected[x] = selected[y]) =>
               /\ offspring[x] # offspring[y]
               /\ offspring[x] # selected[x]

C16_Step ==
    /\ pc = "clone" =>
          \A x \in DOMAIN offspring : heap'[offspring'[x]] = heap[offspring[x]]
    /\ pc \in {"cx_mate", "cx_del1", "cx_del2", "mut_apply", "mut_del"} =>
          /\ offspring' = offspring
          /\ \A y \in Bystanders : heap'[offspring[y]] = heap[offspring[y]]

(* C16: the clones of one member selected at several positions are         *)
(* distinct objects, each a copy of that member, and mate, mutate and del  *)
(* change the alleles and the fitness of their own operands only.          *)
C16_Unaliased == []C16_Distinct /\ [][C16_Step]_vars

C16_Witness ==
    /\ pc = "reeval"
    /\ pos = 1
    /\ \E x, y \in DOMAIN offspring :
          /\ x # y
          /\ selected[x] = selected[y]
          /\ offspring[x] \in touched
          /\ offspring[y] \notin touched
          /\ heap[offspring[x]].genes # heap[selected[x]].genes
          /\ heap[offspring[y]] = heap[selected[y]]

----------------------------------------------------------------------------
(* C17: the mutation pass starts at the first offspring and makes one draw *)
(* for each offspring in order; whatever the crossover pass did to the     *)
(* offspring, the draw can succeed and can fail; a failed draw leaves the  *)
(* offspring as it is, a successful one is followed by one application of  *)
(* the mutator to that offspring and then by the deletion of its fitness.  *)
C17_EitherDraw ==
    (pc = "mut" /\ pos <= Len(offspring)) =>
        /\ ENABLED (MutDraw /\ pc' = "mut_apply")
        /\ ENABLED (MutDraw /\ pc' = "mut")

C17_Step ==
    /\ (pc = "cx" /\ pc' = "mut") => pos' = 1
    /\ pc = "mut" =>
          /\ heap' = heap
          /\ offspring' = offspring
          /\ \/ pc' = "mut" /\ pos' = pos + 1
             \/ pc' = "mut_apply" /\ pos' = pos
             \/ pc' = "reeval" /\ pos = Len(offspring) + 1
    /\ pc = "mut_apply" =>
          /\ pc' = "mut_del"
          /\ pos' = pos
          /\ offspring' = offspring
          /\ heap'[offspring[pos]].fitness = heap[offspring[pos]].fitness
          /\ \E flips \in [1..cfg.ngenes -> BOOLEAN] :
                heap'[offspring[pos]].genes =
                    mutFlipBit(heap[offspring[pos]].genes, flips)
          /\ \A y \in DOMAIN offspring \ {pos} :
                heap'[offspring[y]] = heap[offspring[y]]
    /\ pc = "mut_del" =>
          /\ pc' = "mut"
          /\ pos' = pos + 1
          /\ offspring' = offspring
          /\ heap'[offspring[pos]].genes = heap[offspring[pos]].genes
          /\ ~Valid(heap'[offspring[pos]].fitness)
          /\ \A y \in DOMAIN offspring \ {pos} :
                heap'[offspring[y]] = heap[offspring[y]]

C17_MutationPass == []C17_EitherDraw /\ [][C17_Step]_vars

(* an offspring whose fitness the crossover pass deleted has been mutated  *)
C17_Witness ==
    /\ pc = "mut_del"
    /\ ~Valid(heap[offspring[pos]].fitness)

----------------------------------------------------------------------------
(* the positions whose offspring was an operand of neither mate nor mutate *)
Untouched == {x \in DOMAIN offspring : offspring[x] \notin touched}

C18_Carried ==
    pc \in {"cx", "cx_mate", "cx_del1", "cx_del2", "mut", "mut_apply", "mut_del",
            "reeval", "replace"} =>
        \A x \in Untouched :
           /\ heap[offspring[x]] = heap[selected[x]]
           /\ heap[offspring[x]].fitness = evalOneMax(heap[selected[x]].genes)
           /\ pc \in {"reeval", "replace"} =>
                 \A y \in DOMAIN invalid_ind : invalid_ind[y] # offspring[x]

C18_Step ==
    /\ pc = "reeval" =>
          \A x \in Untouched : heap'[offspring[x]] = heap[offspring[x]]
    /\ pc = "replace" =>
          \A x \in Untouched : heap'[pop'[x]] = heap[selected[x]]

(* C18: from cloning to replacement an offspring that was an operand of    *)
(* neither mate nor mutate has the alleles and the valid fitness of the    *)
(* member it was cloned from, is not in the list handed to the evaluator,  *)
(* is left alone by the re-evaluation, and enters the new population so.   *)
C18_FitnessCarried == []C18_Carried /\ [][C18_Step]_vars

(* a generation in which some offspring were re-evaluated and one was not  *)
C18_Witness ==
    /\ pc = "replace"
    /\ nevals > 0
    /\ \E x \in Untouched :
          /\ Valid(heap[offspring[x]].fitness)
          /\ heap[offspring[x]] = heap[selected[x]]

----------------------------------------------------------------------------
(* the number of ones among the alleles                                    *)
Ones(genes) == Cardinality({x \in DOMAIN genes : genes[x] = 1})

(* C19: at the loop test, during selection and when the report is made,    *)
(* every member of the population has a valid fitness, the number of ones  *)
(* of its alleles; at the loop test fits lists the fitness values of the   *)
(* members of the population as it is then, in order.                      *)
C19_PopulationEvaluated ==
    /\ pc \in {"loop", "select", "stats"} =>
          \A x \in DOMAIN pop :
             /\ Valid(heap[pop[x]].fitness)
             /\ heap[pop[x]].fitness = <<Ones(heap[pop[x]].genes)>>
    /\ pc = "loop" =>
          /\ Len(fits) = Len(pop)
          /\ \A x \in DOMAIN pop : fits[x] = Ones(heap[pop[x]].genes)

(* the loop test after the second replacement, on a population with three  *)
(* different fitness values                                                *)
C19_Witness ==
    /\ pc = "loop"
    /\ g = 2
    /\ fits = <<2, 0, 1>>

====
